---- MODULE Spec2Model ----
(***************************************************************************)
(* Probe scheduling engine of llm-provider-monitor.                        *)
(*                                                                         *)
(* The model follows backend/app/scheduler/probe_scheduler.py (the         *)
(* ProbeScheduler and its per-pair task loops), the parts of               *)
(* backend/app/services/probe_service.py the loops call, and the API       *)
(* handlers that commit a configuration change and then reconcile.         *)
(* Every await of the source is a point where other coroutines may run,    *)
(* so a coroutine is one action per stretch of code between two awaits.    *)
(***************************************************************************)
EXTENDS Integers, FiniteSets, Sequences, TLC

\* ------------------------------------------------------------------ bounds
NumProviders == 2
NumModels == 1
MaxHistory == 1
NumCallers == 2
MaxOrphans == 1

Providers == 1..NumProviders
Models == 1..NumModels
Pairs == Providers \X Models
Callers == 1..NumCallers

\* An entity row of the configuration: absent, present and disabled, or
\* present and enabled.
RowStates == {"missing", "off", "on"}

VARIABLES
    provider,   \* providers table: Providers -> RowStates
    link,       \* provider_models table: Pairs -> RowStates
    model,      \* models table: Models -> RowStates
    template,   \* Model.template is set: Models -> BOOLEAN
    history,    \* probe_history rows per pair (a count)
    running,    \* ProbeScheduler.running
    tasks,      \* ProbeScheduler.tasks: Pairs -> task (NoTask when the key is absent)
    orphans,    \* task objects no longer in ProbeScheduler.tasks and not yet done
    cleanup,    \* ProbeScheduler._cleanup_task
    lifespan,   \* the caller of start() and stop() (main.py lifespan)
    api,        \* API requests that commit and then call refresh_tasks()
    manual,     \* a manual probe request (api/probe.py trigger_probe)
    configs,    \* status_configs rows, as match_status reads them
    check_result, \* the CheckResult handed to save_probe_result
    outcome,    \* what the function applied to them returned or raised
    timing      \* the intervals configured for a pair and the sleep taken

\* The last four hold the arguments and the result of one call of the
\* classification and persistence functions; the scheduler does not read them.
call == <<configs, check_result, outcome, timing>>

vars == <<provider, link, model, template, history, running, tasks, orphans,
          cleanup, lifespan, api, manual, configs, check_result, outcome, timing>>

config == <<provider, link, model, template>>

\* ------------------------------------------------------------ task objects
\* pc is the await the coroutine is suspended at; cancel is a pending
\* Task.cancel() request; gath marks a task stop() is awaiting in gather().
NoTask == [pc |-> "none", cancel |-> FALSE, gath |-> FALSE]
NewTask == [pc |-> "new", cancel |-> FALSE, gath |-> FALSE]

DonePcs == {"pruned", "exited", "cancelled"}
LivePcs == {"new", "cfg", "chk", "match", "commit", "ivl", "sleep", "backoff", "await"}
\* config resolved, history record not yet written or abandoned
FlightPcs == {"chk", "match", "commit"}

Done(t) == t.pc \in DonePcs
Live(t) == t.pc \in LivePcs


\* ------------------------------------------------------- probe_service.py
\* get_probe_config as it would be if the model row and its template were
\* not read again at every call.
get_probe_config_cached(p) ==
    provider[p[1]] = "on" /\ link[p] = "on"

\* ProbeService.get_probe_config: None (FALSE here) or a ProbeConfig (TRUE).
get_probe_config(p) ==
    IF provider[p[1]] # "on" THEN FALSE
    ELSE IF link[p] # "on" THEN FALSE
    ELSE IF model[p[2]] # "on" THEN FALSE
    ELSE IF ~template[p[2]] THEN FALSE
    ELSE TRUE

\* get_all_enabled_tasks as it would be without the test of
\* ProviderModel.enabled.
get_all_linked_tasks ==
    {p \in Pairs : provider[p[1]] = "on" /\ model[p[2]] = "on"}

\* ProbeService.get_all_enabled_tasks: the join of the three tables on the
\* three enabled flags; the template is not part of the query.
get_all_enabled_tasks ==
    {p \in Pairs : provider[p[1]] = "on" /\ link[p] = "on" /\ model[p[2]] = "on"}

\* ---------------------------------------------------- probe_scheduler.py
At(t, pc) == [t EXCEPT !.pc = pc]
Fin(t, pc) == [pc |-> pc, cancel |-> FALSE, gath |-> FALSE]

\* Task.cancel(): a no-op on a task that is done, otherwise CancelledError is
\* thrown into the coroutine at the await it is suspended at (or it never
\* runs, when it has not started).  Every await but one then ends the task
\* the same way, so a task with a cancellation pending is kept as "await",
\* or as "commit" when its db.commit() is in flight.
Cancel(t) ==
    IF Live(t)
    THEN [t EXCEPT !.cancel = TRUE, !.pc = IF t.pc = "commit" THEN "commit" ELSE "await"]
    ELSE t

\* The loop test as it would be if it were `while True:`.
LoopTestAlways(t) == At(t, "cfg")

\* `while self.running:` at the top of _task_loop, followed by the first
\* await of the body (the session of get_probe_config).
LoopTest(t) == IF running THEN At(t, "cfg") ELSE Fin(t, "exited")

\* _task_loop as it would be without its `except Exception` handler: the
\* exception leaves the coroutine and the task is done.
RaisedCrash(t) == Fin(t, "exited")

\* `except Exception as e:` of _task_loop: the error is logged and the task
\* is suspended at `await asyncio.sleep(60)`.
Raised(t) == At(t, "backoff")

\* _task_loop as it would be if it slept and tried again when
\* get_probe_config returns None.
NotRunnableRetry(t) == At(t, "sleep")

\* `if not config: ... break` of _task_loop: the coroutine returns.
NotRunnable(t) == Fin(t, "pruned")

\* _task_loop as it would be if the CancelledError were caught by the
\* `except Exception` handler: the request is spent and the loop goes on.
CancelledErrorCaught(t) ==
    {<<[pc |-> "backoff", cancel |-> FALSE, gath |-> t.gath], FALSE>>}

\* The CancelledError thrown into the coroutine at the await it is
\* suspended at: the task is done, and the commit that was in flight has
\* stored its row or has not.
CancelledError(t) ==
    IF t.pc = "commit"
    THEN {<<Fin(t, "cancelled"), FALSE>>, <<Fin(t, "cancelled"), TRUE>>}
    ELSE {<<Fin(t, "cancelled"), FALSE>>}

\* One resumption of a _task_loop coroutine of pair p that is suspended at
\* t.pc: the set of <<task afterwards, history row committed>>.  A pending
\* cancellation is delivered as CancelledError at the await: `except
\* asyncio.CancelledError: break` inside the try, propagation out of the
\* coroutine from the sleep of the `except Exception` handler, no run at all
\* for a task that never started.  A commit that is in flight when the
\* CancelledError arrives is completed or not by the database driver.
TaskSteps(p, t) ==
    IF ~Live(t) THEN {}
    ELSE IF t.cancel THEN CancelledError(t)
    ELSE CASE t.pc = "new" -> {<<LoopTest(t), FALSE>>}
           [] t.pc = "cfg" ->
                \* get_probe_config returned None at one of its four tests, or
                \* went on to read provider.timeout_seconds and returned a
                \* ProbeConfig, or raised there (Provider declares no such column)
                IF get_probe_config(p)
                THEN {<<At(t, "chk"), FALSE>>, <<Raised(t), FALSE>>}
                ELSE {<<NotRunnable(t), FALSE>>}
           [] t.pc = "chk" ->
                \* checker.check returns a CheckResult, it never raises
                {<<At(t, "match"), FALSE>>}
           [] t.pc = "match" ->
                \* save_probe_result: match_status returned and the ProbeHistory
                \* was built, or one of the two raised (config.code,
                \* match_result.status_id)
                {<<At(t, "commit"), FALSE>>, <<Raised(t), FALSE>>}
           [] t.pc = "commit" ->
                \* db.add + db.commit: one row, or an exception and no row
                {<<At(t, "ivl"), TRUE>>, <<Raised(t), FALSE>>}
           [] t.pc = "ivl" ->
                \* _get_provider_config returned the interval, or raised
                \* (provider.timeout_seconds)
                {<<At(t, "sleep"), FALSE>>, <<Raised(t), FALSE>>}
           [] t.pc = "sleep" -> {<<LoopTest(t), FALSE>>}
           [] t.pc = "backoff" -> {<<LoopTest(t), FALSE>>}

\* The scheduler's task table and the tasks dropped from it, as one value.
Table(ts, os) == [tasks |-> ts, orphans |-> os]

\* _start_task as it would be without `or self.tasks[task_id].done()`.
StartTaskAbsent(tb, p) ==
    IF tb.tasks[p] = NoTask
    THEN [tb EXCEPT !.tasks[p] = NewTask]
    ELSE tb

\* ProbeScheduler._start_task
StartTask(tb, p) ==
    IF tb.tasks[p] = NoTask \/ Done(tb.tasks[p])
    THEN [tb EXCEPT !.tasks[p] = NewTask]
    ELSE tb

\* A task object that left the table: it goes on existing until it is done.
Dropped(os, p, t) == IF Live(t) THEN [os EXCEPT ![p] = @ \cup {t}] ELSE os

\* ProbeScheduler._stop_task: cancel() and del, without awaiting the task
StopTask(tb, p) ==
    IF tb.tasks[p] # NoTask
    THEN [tasks |-> [tb.tasks EXCEPT ![p] = NoTask],
          orphans |-> Dropped(tb.orphans, p, Cancel(tb.tasks[p]))]
    ELSE tb

RECURSIVE StartAll(_, _)
StartAll(tb, ps) ==
    IF ps = {} THEN tb
    ELSE LET p == CHOOSE q \in ps : TRUE
         IN StartAll(StartTask(tb, p), ps \ {p})

RECURSIVE StopAll(_, _)
StopAll(tb, ps) ==
    IF ps = {} THEN tb
    ELSE LET p == CHOOSE q \in ps : TRUE
         IN StopAll(StopTask(tb, p), ps \ {p})

current_set(tb) == {p \in Pairs : tb.tasks[p] # NoTask}

\* refresh_tasks as it would be if it called _start_task for every enabled
\* pair and not only for those missing from the table.
RefreshDiffEnabled(tb, enabled_set) ==
    StartAll(StopAll(tb, current_set(tb) \ enabled_set), enabled_set)

\* refresh_tasks as it would be if it stopped every task of the table and
\* started the enabled ones anew, the way restart_provider_tasks does for
\* one provider.
RefreshDiffRestart(tb, enabled_set) ==
    StartAll(StopAll(tb, current_set(tb)), enabled_set)

\* The synchronous part of refresh_tasks after its query returned enabled_set
RefreshDiff(tb, enabled_set) ==
    LET cur == current_set(tb)
    IN StartAll(StopAll(tb, cur \ enabled_set), enabled_set \ cur)

\* The bound on the task objects that exist outside the table.
OrphansOk(tb) == \A p \in Pairs : Cardinality(tb.orphans[p]) <= MaxOrphans

\* ------------------------------------------------------------ str methods
\* A str is the sequence of its characters.
DigitChars == <<"0", "1", "2", "3", "4", "5", "6", "7", "8", "9">>

\* str(n) of a non-negative int
RECURSIVE str(_)
str(n) ==
    IF n < 10 THEN <<DigitChars[n + 1]>>
    ELSE Append(str(n \div 10), DigitChars[(n % 10) + 1])

\* s.endswith(suffix)
endswith(s, suffix) ==
    /\ Len(suffix) <= Len(s)
    /\ SubSeq(s, Len(s) - Len(suffix) + 1, Len(s)) = suffix

\* s.startswith(prefix)
startswith(s, prefix) ==
    /\ Len(prefix) <= Len(s)
    /\ SubSeq(s, 1, Len(prefix)) = prefix

\* sub in s
contains(s, sub) ==
    \E i \in 1..(Len(s) - Len(sub) + 1) : SubSeq(s, i, i + Len(sub) - 1) = sub

\* s.replace(old, new), old not empty: the occurrences from the left, not
\* overlapping
RECURSIVE replace(_, _, _)
replace(s, old, new) ==
    IF Len(s) < Len(old) THEN s
    ELSE IF SubSeq(s, 1, Len(old)) = old
         THEN new \o replace(SubSeq(s, Len(old) + 1, Len(s)), old, new)
         ELSE <<Head(s)>> \o replace(Tail(s), old, new)

\* s.split(sep) for a separator of one character
RECURSIVE split(_, _)
split(s, sep) ==
    IF \A i \in 1..Len(s) : s[i] # sep THEN <<s>>
    ELSE LET i == CHOOSE j \in 1..Len(s) :
                      s[j] = sep /\ \A k \in 1..(j - 1) : s[k] # sep
         IN <<SubSeq(s, 1, i - 1)>> \o split(SubSeq(s, i + 1, Len(s)), sep)

\* s.strip(): the white space at both ends removed
RECURSIVE strip(_)
strip(s) ==
    IF s = <<>> THEN s
    ELSE IF Head(s) = " " THEN strip(Tail(s))
    ELSE IF s[Len(s)] = " " THEN strip(SubSeq(s, 1, Len(s) - 1))
    ELSE s

\* s.lower(), over the letters the patterns are written with
lower(s) ==
    [i \in 1..Len(s) |->
        CASE s[i] = "X" -> "x"
          [] s[i] = "E" -> "e"
          [] OTHER -> s[i]]

\* -------------------------------------------------------- status_service.py
\* The `for p in patterns:` of _match_http_code.
RECURSIVE MatchPatterns(_, _)
MatchPatterns(patterns, http_code) ==
    IF patterns = <<>> THEN FALSE
    ELSE LET p == lower(Head(patterns))
         IN IF contains(p, <<"x", "x">>)
            THEN IF startswith(str(http_code), replace(p, <<"x", "x">>, <<>>))
                 THEN TRUE
                 ELSE MatchPatterns(Tail(patterns), http_code)
            ELSE IF str(http_code) = p
                 THEN TRUE
                 ELSE MatchPatterns(Tail(patterns), http_code)

\* StatusService._match_http_code
match_http_code(pattern, http_code) ==
    LET parts == split(pattern, ",")
    IN MatchPatterns([i \in 1..Len(parts) |-> strip(parts[i])], http_code)

\* CheckResult.http_code when the checker got no HTTP response (None)
NoHttpCode == 0

\* The try around re.search as it would be if `except re.error` left
\* regex_matched at its initial True.
re_search_unguarded(response_regex, output) ==
    \/ \E i \in 1..Len(response_regex) : response_regex[i] = "("
    \/ contains(output, response_regex)

\* re.search(response_regex, output) for the regexes tried: literal text,
\* which is searched anywhere in output, and text with an unbalanced "(",
\* which does not compile (re.error, taken as no match).
re_search(response_regex, output) ==
    /\ \A i \in 1..Len(response_regex) : response_regex[i] # "("
    /\ contains(output, response_regex)

\* `hit` as it would be without the `continue` for a row with neither
\* pattern: http_matched and regex_matched keep their initial True.
HitInert(c, output, http_code) ==
    /\ c.http_code_pattern # <<>> =>
          (http_code # NoHttpCode /\ match_http_code(c.http_code_pattern, http_code))
    /\ c.response_regex # <<>> => re_search(c.response_regex, output)

\* `hit` as it would be without the test `if http_code is None`: a row
\* with an http_code_pattern is then judged by its regex alone.
HitNoCode(c, output, http_code) ==
    /\ c.http_code_pattern # <<>> \/ c.response_regex # <<>>
    /\ (c.http_code_pattern # <<>> /\ http_code # NoHttpCode) =>
          match_http_code(c.http_code_pattern, http_code)
    /\ c.response_regex # <<>> => re_search(c.response_regex, output)

\* `hit` as it would be if a row with both patterns needed only one of
\* them to match (`or` for `and`).
HitEither(c, output, http_code) ==
    LET http_matched ==
            /\ c.http_code_pattern # <<>>
            /\ http_code # NoHttpCode
            /\ match_http_code(c.http_code_pattern, http_code)
        regex_matched ==
            /\ c.response_regex # <<>>
            /\ re_search(c.response_regex, output)
    IN http_matched \/ regex_matched

\* `hit` of match_status for one row; a row with neither pattern is passed
\* over by `continue`.
Hit(c, output, http_code) ==
    LET http_matched ==
            IF c.http_code_pattern # <<>>
            THEN IF http_code = NoHttpCode THEN FALSE
                 ELSE match_http_code(c.http_code_pattern, http_code)
            ELSE TRUE
        regex_matched ==
            IF c.response_regex # <<>>
            THEN re_search(c.response_regex, output)
            ELSE TRUE
    IN IF c.http_code_pattern = <<>> /\ c.response_regex = <<>> THEN FALSE
       ELSE IF c.http_code_pattern # <<>> /\ c.response_regex # <<>>
            THEN http_matched /\ regex_matched
       ELSE IF c.http_code_pattern # <<>> THEN http_matched
       ELSE regex_matched

\* order_by(StatusConfig.priority.desc()) over rows of distinct priorities
RECURSIVE PriorityDesc(_)
PriorityDesc(rows) ==
    IF rows = {} THEN <<>>
    ELSE LET top == CHOOSE r \in rows : \A o \in rows : o.priority <= r.priority
         IN <<top>> \o PriorityDesc(rows \ {top})

\* select(StatusConfig).order_by(...) over the table, a sequence of rows
order_by_priority_desc(table) == PriorityDesc({table[i] : i \in 1..Len(table)})

MatchResult(status_code, matched, category) ==
    [status_code |-> status_code, matched |-> matched, category |-> category]

\* The status_code of the fixed outcome of match_status when no row is hit
UnknownCode == -1

\* What a call returned, or that it raised.
Returned(r) == [raised |-> FALSE, result |-> r]
Raises == [raised |-> TRUE]

\* `matched` of the MatchResult of a row that is hit: green, or a
\* response_regex present.
MatchedOf(c) ==
    IF c.category = "green" THEN TRUE
    ELSE IF c.response_regex # <<>> THEN TRUE
    ELSE FALSE

\* match_status as it would be if its fixed outcome counted as matched.
NoConfigHitMatched == Returned(MatchResult(UnknownCode, TRUE, "yellow"))

\* `# No config hit - return unknown status`
NoConfigHit == Returned(MatchResult(UnknownCode, FALSE, "yellow"))

\* The `for config in configs:` of match_status from its i-th row on: the
\* set of what the call can do.  Building the MatchResult of a row that is
\* hit reads config.code, which StatusConfig (models/status.py) does not
\* declare, its key being `id`: the read raises AttributeError, or gives the
\* key where the class declares it.
RECURSIVE MatchConfigs(_, _, _, _)
MatchConfigs(cs, i, output, http_code) ==
    IF i > Len(cs) THEN {NoConfigHit}
    ELSE IF Hit(cs[i], output, http_code)
         THEN {Returned(MatchResult(cs[i].id, MatchedOf(cs[i]), cs[i].category)), Raises}
         ELSE MatchConfigs(cs, i + 1, output, http_code)

\* StatusService.match_status over the table status_configs
match_status(table, output, http_code) ==
    MatchConfigs(order_by_priority_desc(table), 1, output, http_code)

\* ------------------------------------------------ probe_service.py, saving
\* ProbeHistory.message: None, or a str
Null == [null |-> TRUE]
Message(text) == [null |-> FALSE, text |-> text]

\* The length output[:1000] cuts the message at
MessageLimit == 1000

\* save_probe_result as it would be if it classified and stored the output
\* of the checker alone.
ClassifiedOutputOnly(cr) == cr.output

\* `output = check_result.error + "\n" + output` when there is an error
ClassifiedOutput(cr) ==
    IF cr.error # <<>> THEN cr.error \o <<"\n">> \o cr.output ELSE cr.output

\* `message` of save_probe_result for a MatchResult m
MessageOf(m, output) ==
    IF ~m.matched
    THEN IF output # <<>>
         THEN Message(SubSeq(output, 1, IF Len(output) < MessageLimit
                                        THEN Len(output) ELSE MessageLimit))
         ELSE Null
    ELSE Null

\* ProbeService.save_probe_result for pair p: the set of what the call can
\* do.  It raises when match_status does; it raises at
\* status_id=match_result.status_id, MatchResult (status_service.py) having
\* status_code and no status_id, or builds the ProbeHistory where the
\* attribute is there; and db.commit() stores the row or raises.
save_probe_result(p, table, cr) ==
    LET output == ClassifiedOutput(cr)
    IN UNION { IF m.raised THEN {Raises}
               ELSE {Raises,
                     Returned([provider_id |-> p[1], model_id |-> p[2],
                               status_id |-> m.result.status_code,
                               latency_ms |-> cr.latency_ms,
                               message |-> MessageOf(m.result, output)])} :
               m \in match_status(table, output, cr.http_code) }

\* ------------------------------------------- probe_scheduler.py, intervals
\* int(s) of a str of decimal digits
RECURSIVE int(_)
int(s) ==
    IF s = <<>> THEN 0
    ELSE 10 * int(SubSeq(s, 1, Len(s) - 1))
           + ((CHOOSE d \in 1..10 : DigitChars[d] = s[Len(s)]) - 1)

\* A row of global_configs with its value
GlobalConfig(value) == [row |-> TRUE, value |-> value]

\* ProbeScheduler._get_config_value(key, default)
get_config_value(c, default) == IF c.row THEN c.value ELSE default

\* The `await asyncio.sleep(60)` of the `except Exception` handler
RecoveryDelay == 60

\* `interval` of _get_provider_config for a provider that exists, with its
\* interval_seconds (0 for None) and the row check_interval_seconds
IntervalOf(interval_seconds, check_interval_seconds) ==
    LET global_interval == int(get_config_value(check_interval_seconds, <<"3", "0", "0">>))
    IN IF interval_seconds # 0 THEN interval_seconds ELSE global_interval

\* ProbeScheduler._get_provider_config, its interval: returned, or the read
\* of provider.timeout_seconds raised (Provider declares no such column).
get_provider_config(interval_seconds, check_interval_seconds) ==
    {Returned(IntervalOf(interval_seconds, check_interval_seconds)), Raises}

\* ------------------------------------------------------------------- Init
\* The state after ProbeScheduler() is constructed (running False, no task,
\* no cleanup task) over a database in which every row exists and is
\* enabled or disabled.
NoSnap == {}
IdleCall == [pc |-> "idle", snap |-> NoSnap]
IdleManual == [pc |-> "idle", pair |-> <<1, 1>>]
NoCleanup == [pc |-> "none", cancel |-> FALSE]

\* No call of a classification or persistence function has been made.
NoResult == [output |-> <<>>, error |-> <<>>, http_code |-> 0, latency_ms |-> 0]
NoOutcome == [op |-> "none"]
NoRow == [row |-> FALSE]
NoTiming == [interval_seconds |-> 0, check_interval_seconds |-> NoRow,
             after |-> "none", slept |-> 0]

\* ProbeScheduler() as constructed, the application not yet started.
Constructed ==
    /\ history = [p \in Pairs |-> 0]
    /\ running = FALSE
    /\ tasks = [p \in Pairs |-> NoTask]
    /\ orphans = [p \in Pairs |-> {}]
    /\ cleanup = NoCleanup
    /\ lifespan = [pc |-> "init", snap |-> NoSnap]
    /\ api = [c \in Callers |-> IdleCall]
    /\ manual = IdleManual

Init ==
    /\ provider \in [Providers -> {"off", "on"}]
    /\ link \in [Pairs -> {"off", "on"}]
    /\ model \in [Models -> {"off", "on"}]
    /\ template \in [Models -> BOOLEAN]
    /\ Constructed
    /\ configs = <<>>
    /\ check_result = NoResult
    /\ outcome = NoOutcome
    /\ timing = NoTiming

\* ------------------------------------------------------------ task loops
\* The resumption of a task as it would be if the exception or the return
\* of one task loop cancelled the tasks of the other pairs.
TaskRunCascade(p) ==
    /\ \E o \in TaskSteps(p, tasks[p]) :
          /\ o[2] => history[p] < MaxHistory
          /\ tasks' = [q \in Pairs |->
                          IF q = p THEN o[1]
                          ELSE IF o[1].pc \in {"backoff", "pruned"} THEN Cancel(tasks[q])
                          ELSE tasks[q]]
          /\ history' = [history EXCEPT ![p] = IF o[2] THEN @ + 1 ELSE @]
    /\ UNCHANGED <<call, config, running, orphans, cleanup, lifespan, api, manual>>

\* The resumption of a task as it would be if an iteration that ends in the
\* `except Exception` handler took the records of the pair with it.
TaskRunPurge(p) ==
    /\ \E o \in TaskSteps(p, tasks[p]) :
          /\ o[2] => history[p] < MaxHistory
          /\ tasks' = [tasks EXCEPT ![p] = o[1]]
          /\ history' = [history EXCEPT ![p] =
                            IF o[2] THEN @ + 1 ELSE IF o[1].pc = "backoff" THEN 0 ELSE @]
    /\ UNCHANGED <<call, config, running, orphans, cleanup, lifespan, api, manual>>

\* A resumption of the task the table holds for pair p.
TaskRun(p) ==
    /\ \E o \in TaskSteps(p, tasks[p]) :
          /\ o[2] => history[p] < MaxHistory
          /\ tasks' = [tasks EXCEPT ![p] = o[1]]
          /\ history' = [history EXCEPT ![p] = IF o[2] THEN @ + 1 ELSE @]
    /\ UNCHANGED <<call, config, running, orphans, cleanup, lifespan, api, manual>>

\* A resumption of a task object that was dropped from the table.
OrphanRun(p) ==
    /\ \E t \in orphans[p] : \E o \in TaskSteps(p, t) :
          /\ o[2] => history[p] < MaxHistory
          /\ orphans' = [orphans EXCEPT ![p] =
                            (@ \ {t}) \cup (IF Live(o[1]) THEN {o[1]} ELSE {})]
          /\ history' = [history EXCEPT ![p] = IF o[2] THEN @ + 1 ELSE @]
    /\ UNCHANGED <<call, config, running, tasks, cleanup, lifespan, api, manual>>

\* `while self.running:` of _cleanup_loop, followed by the await of
\* asyncio.sleep(86400)
CleanupLoopTest(c) == [c EXCEPT !.pc = IF running THEN "sleep" ELSE "done"]

\* _cleanup_loop as it would be without its `except Exception` handler: the
\* exception of a cleanup ends the task.
CleanupRaisedExit(c) == [c EXCEPT !.pc = "done"]

\* `except Exception as e: logger.error(...)` of _cleanup_loop, which goes
\* back to the loop test
CleanupRaised(c) == CleanupLoopTest(c)

\* ProbeScheduler._cleanup_loop: the loop test, the 24 hour sleep, then
\* CleanupService.cleanup_old_data, which deletes the rows older than the
\* retention period and commits, or raises before it has; the log line that
\* follows reads result.history_deleted of the dict returned, which raises
\* too.  Every exception is logged by the handler.
CleanupRun ==
    /\ cleanup.pc \in {"new", "sleep"}
    /\ \/ /\ cleanup.cancel
          /\ cleanup' = [pc |-> "done", cancel |-> FALSE]
          /\ UNCHANGED history
       \/ /\ ~cleanup.cancel
          /\ cleanup.pc = "new"
          /\ cleanup' = CleanupLoopTest(cleanup)
          /\ UNCHANGED history
       \/ /\ ~cleanup.cancel
          /\ cleanup.pc = "sleep"
          /\ \E h \in [Pairs -> 0..MaxHistory] :
                /\ \A p \in Pairs : h[p] <= history[p]
                /\ history' = h
          /\ cleanup' = CleanupRaised(cleanup)
    /\ UNCHANGED <<call, config, running, tasks, orphans, lifespan, api, manual>>

\* ------------------------------------------------------- start() and stop()
\* main.py lifespan: start() runs to its end before the application takes
\* requests, and stop() is called once it has finished handling them.
Serving == lifespan.pc = "serving"
Quiet == manual.pc = "idle" /\ \A c \in Callers : api[c].pc = "idle"

\* start() up to the end of the query of _start_all_tasks.
StartCall ==
    /\ lifespan.pc = "init"
    /\ ~running
    /\ running' = TRUE
    /\ lifespan' = [pc |-> "starting", snap |-> get_all_enabled_tasks]
    /\ UNCHANGED <<call, config, history, tasks, orphans, cleanup, api, manual>>

\* The rest of start(): one _start_task per enumerated pair, then the
\* cleanup task.
StartFinish ==
    /\ lifespan.pc = "starting"
    /\ LET tb == StartAll(Table(tasks, orphans), lifespan.snap)
       IN /\ tasks' = tb.tasks
          /\ orphans' = tb.orphans
    /\ cleanup' = [pc |-> "new", cancel |-> FALSE]
    /\ lifespan' = [pc |-> "serving", snap |-> NoSnap]
    /\ UNCHANGED <<call, config, history, running, api, manual>>

\* tasks.clear(): the table forgets its tasks, whatever their state.
Cleared(tb) ==
    [tasks |-> [p \in Pairs |-> NoTask],
     orphans |-> [p \in Pairs |->
                    tb.orphans[p] \cup (IF Live(tb.tasks[p]) THEN {tb.tasks[p]} ELSE {})]]

\* cancel() of _cleanup_task when there is one
CancelCleanup(c) == IF c.pc \in {"new", "sleep"} THEN [c EXCEPT !.cancel = TRUE] ELSE c

\* stop() up to `await asyncio.gather(...)`: every task of the table is
\* cancelled and then awaited.
StopCall ==
    /\ Serving
    /\ Quiet
    /\ running' = FALSE
    /\ current_set(Table(tasks, orphans)) # {}
    /\ tasks' = [p \in Pairs |->
                    IF Live(tasks[p]) THEN [Cancel(tasks[p]) EXCEPT !.gath = TRUE]
                    ELSE tasks[p]]
    /\ lifespan' = [pc |-> "gather", snap |-> NoSnap]
    /\ UNCHANGED <<call, config, history, orphans, cleanup, api, manual>>

\* stop() with an empty table: no gather, straight on to the cleanup task.
StopCallEmpty ==
    /\ Serving
    /\ Quiet
    /\ running' = FALSE
    /\ current_set(Table(tasks, orphans)) = {}
    /\ cleanup' = CancelCleanup(cleanup)
    /\ lifespan' = [pc |-> "await_cleanup", snap |-> NoSnap]
    /\ UNCHANGED <<call, config, history, tasks, orphans, api, manual>>

Gathered == \A p \in Pairs : ~tasks[p].gath /\ \A t \in orphans[p] : ~t.gath

\* gather() returned: tasks.clear(), then cancel and await the cleanup task.
StopGathered ==
    /\ lifespan.pc = "gather"
    /\ Gathered
    /\ LET tb == Cleared(Table(tasks, orphans))
       IN /\ OrphansOk(tb)
          /\ tasks' = tb.tasks
          /\ orphans' = tb.orphans
    /\ cleanup' = CancelCleanup(cleanup)
    /\ lifespan' = [pc |-> "await_cleanup", snap |-> NoSnap]
    /\ UNCHANGED <<call, config, history, running, api, manual>>

\* `await self._cleanup_task` returned: stop() returns.
StopReturn ==
    /\ lifespan.pc = "await_cleanup"
    /\ cleanup.pc \notin {"new", "sleep"}
    /\ lifespan' = [pc |-> "stopped", snap |-> NoSnap]
    /\ UNCHANGED <<call, config, history, running, tasks, orphans, cleanup, api, manual>>

\* ----------------------------------------------------------- API handlers
\* A handler commits its change and then awaits scheduler.refresh_tasks().
Committed(c) == api' = [api EXCEPT ![c] = [pc |-> "committed", snap |-> NoSnap]]

LinksOf(pr, f) == [p \in Pairs |-> IF p[1] = pr THEN f[p[2]] ELSE link[p]]

\* api/providers.py update_provider (enabled, or any other field such as
\* interval_seconds when v is the present value)
UpdateProvider(c, pr, v) ==
    /\ Serving
    /\ api[c].pc = "idle"
    /\ provider[pr] # "missing"
    /\ provider' = [provider EXCEPT ![pr] = v]
    /\ Committed(c)
    /\ UNCHANGED <<call, link, model, template, history, running, tasks, orphans,
                   cleanup, lifespan, manual>>

\* api/providers.py configure_provider_models: the provider's links are
\* deleted and written anew
ConfigureProviderModels(c, pr, f) ==
    /\ Serving
    /\ api[c].pc = "idle"
    /\ provider[pr] # "missing"
    /\ link' = LinksOf(pr, f)
    /\ Committed(c)
    /\ UNCHANGED <<call, provider, model, template, history, running, tasks, orphans,
                   cleanup, lifespan, manual>>

\* api/providers.py delete_provider: the links and the history of the
\* provider go with it (cascade="all, delete-orphan")
DeleteProvider(c, pr) ==
    /\ Serving
    /\ api[c].pc = "idle"
    /\ provider[pr] # "missing"
    /\ provider' = [provider EXCEPT ![pr] = "missing"]
    /\ link' = LinksOf(pr, [m \in Models |-> "missing"])
    /\ history' = [p \in Pairs |-> IF p[1] = pr THEN 0 ELSE history[p]]
    /\ Committed(c)
    /\ UNCHANGED <<call, model, template, running, tasks, orphans, cleanup, lifespan, manual>>

\* api/providers.py create_provider, with its models
CreateProvider(c, pr, v, f) ==
    /\ Serving
    /\ api[c].pc = "idle"
    /\ provider[pr] = "missing"
    /\ provider' = [provider EXCEPT ![pr] = v]
    /\ link' = LinksOf(pr, f)
    /\ Committed(c)
    /\ UNCHANGED <<call, model, template, history, running, tasks, orphans,
                   cleanup, lifespan, manual>>

\* api/config.py update_config with check_interval_seconds
UpdateConfig(c) ==
    /\ Serving
    /\ api[c].pc = "idle"
    /\ Committed(c)
    /\ UNCHANGED <<call, config, history, running, tasks, orphans, cleanup, lifespan, manual>>

\* api/models.py update_model (enabled, template_id): commit and return
UpdateModel(m, v, tpl) ==
    /\ Serving
    /\ model[m] # "missing"
    /\ model' = [model EXCEPT ![m] = v]
    /\ template' = [template EXCEPT ![m] = tpl]
    /\ UNCHANGED <<call, provider, link, history, running, tasks, orphans, cleanup,
                   lifespan, api, manual>>

\* api/models.py delete_model: its links and history go with it
DeleteModel(m) ==
    /\ Serving
    /\ model[m] # "missing"
    /\ model' = [model EXCEPT ![m] = "missing"]
    /\ template' = [template EXCEPT ![m] = FALSE]
    /\ link' = [p \in Pairs |-> IF p[2] = m THEN "missing" ELSE link[p]]
    /\ history' = [p \in Pairs |-> IF p[2] = m THEN 0 ELSE history[p]]
    /\ UNCHANGED <<call, provider, running, tasks, orphans, cleanup, lifespan, api, manual>>

\* api/models.py create_model
CreateModel(m, v, tpl) ==
    /\ Serving
    /\ model[m] = "missing"
    /\ model' = [model EXCEPT ![m] = v]
    /\ template' = [template EXCEPT ![m] = tpl]
    /\ UNCHANGED <<call, provider, link, history, running, tasks, orphans, cleanup,
                   lifespan, api, manual>>

\* refresh_tasks(): the query of get_all_enabled_tasks
RefreshRead(c) ==
    /\ api[c].pc = "committed"
    /\ api' = [api EXCEPT ![c] = [pc |-> "read", snap |-> get_all_enabled_tasks]]
    /\ UNCHANGED <<call, config, history, running, tasks, orphans, cleanup, lifespan, manual>>

\* refresh_tasks(): the two loops over the set differences; the handler
\* then returns
RefreshApply(c) ==
    /\ api[c].pc = "read"
    /\ LET tb == RefreshDiff(Table(tasks, orphans), api[c].snap)
       IN /\ OrphansOk(tb)
          /\ tasks' = tb.tasks
          /\ orphans' = tb.orphans
    /\ api' = [api EXCEPT ![c] = IdleCall]
    /\ UNCHANGED <<call, config, history, running, cleanup, lifespan, manual>>

\* ---------------------------------------------------------- manual probe
\* api/probe.py trigger_probe -> ProbeService.probe: get_probe_config
\* returned a ProbeConfig, or the request ends there (None: HTTP 400, an
\* exception: HTTP 500)
TriggerProbe(p) ==
    /\ Serving
    /\ manual.pc = "idle"
    /\ \/ /\ get_probe_config(p)
          /\ manual' = [pc |-> "chk", pair |-> p]
       \/ manual' = manual
    /\ UNCHANGED <<call, config, history, running, tasks, orphans, cleanup, lifespan, api>>

\* checker.check returned
ManualChecked ==
    /\ manual.pc = "chk"
    /\ manual' = [manual EXCEPT !.pc = "save"]
    /\ UNCHANGED <<call, config, history, running, tasks, orphans, cleanup, lifespan, api>>

\* save_probe_result: one row, or an exception (HTTP 500) and no row
ManualSave ==
    /\ manual.pc = "save"
    /\ \/ /\ history[manual.pair] < MaxHistory
          /\ history' = [history EXCEPT ![manual.pair] = @ + 1]
       \/ UNCHANGED history
    /\ manual' = IdleManual
    /\ UNCHANGED <<call, config, running, tasks, orphans, cleanup, lifespan, api>>

\* ----------------------------------------------------------- sessions
\* The awaits at which a _task_loop coroutine is inside an
\* `async with async_session_maker() as session:` block: get_probe_config,
\* save_probe_result with its commit, and _get_provider_config.  The call
\* of checker.check stands between two such blocks.
TaskSession(t) == t.pc \in {"cfg", "match", "commit", "ivl"}

\* The session of the request of trigger_probe (Depends(get_db)), which
\* ProbeService.probe uses from get_probe_config to save_probe_result: it
\* is open for as long as the request runs.
ManualSession == manual.pc \in {"chk", "save"}

\* ------------------------------------------------------------------- Next
\* The whole program around one provider: the lifespan that starts and
\* stops the scheduler, the task loops, the cleanup loop, every API handler
\* and the manual probe.  The second provider stays disabled
\* and is never written.
Focus == {1}
FocusPairs == {p \in Pairs : p[1] \in Focus}

InitFocus ==
    /\ Init
    /\ \A pr \in Providers \ Focus : provider[pr] = "off"
    /\ \A p \in Pairs \ FocusPairs : link[p] = "off"

Next ==
    \/ \E p \in FocusPairs : TaskRun(p)
    \/ \E p \in FocusPairs : OrphanRun(p)
    \/ CleanupRun
    \/ StartCall
    \/ StartFinish
    \/ StopCall
    \/ StopCallEmpty
    \/ StopGathered
    \/ StopReturn
    \/ \E c \in Callers, pr \in Focus, v \in {"off", "on"} : UpdateProvider(c, pr, v)
    \/ \E c \in Callers, pr \in Focus, f \in [Models -> RowStates] :
          ConfigureProviderModels(c, pr, f)
    \/ \E c \in Callers, pr \in Focus : DeleteProvider(c, pr)
    \/ \E c \in Callers, pr \in Focus, v \in {"off", "on"}, f \in [Models -> RowStates] :
          CreateProvider(c, pr, v, f)
    \/ \E c \in Callers : UpdateConfig(c)
    \/ \E m \in Models, v \in {"off", "on"}, tpl \in BOOLEAN : UpdateModel(m, v, tpl)
    \/ \E m \in Models : DeleteModel(m)
    \/ \E m \in Models, v \in {"off", "on"}, tpl \in BOOLEAN : CreateModel(m, v, tpl)
    \/ \E c \in Callers : RefreshRead(c)
    \/ \E c \in Callers : RefreshApply(c)
    \/ \E p \in FocusPairs : TriggerProbe(p)
    \/ ManualChecked
    \/ ManualSave

Spec == InitFocus /\ [][Next]_vars

\* The scheduler while it serves, with every provider: one start(), the
\* task loops of all pairs, and the handlers that enable and disable
\* providers and models and reconcile.
NextServing ==
    \/ \E p \in Pairs : TaskRun(p)
    \/ \E p \in Pairs : OrphanRun(p)
    \/ StartCall
    \/ StartFinish
    \/ \E c \in Callers, pr \in Providers, v \in {"off", "on"} : UpdateProvider(c, pr, v)
    \/ \E c \in Callers : UpdateConfig(c)
    \/ \E m \in Models, v \in {"off", "on"}, tpl \in BOOLEAN : UpdateModel(m, v, tpl)
    \/ \E c \in Callers : RefreshRead(c)
    \/ \E c \in Callers : RefreshApply(c)

InitServing ==
    /\ Init
    /\ \A p \in Pairs : link[p] = "on"

SpecServing == InitServing /\ [][NextServing]_vars

\* ------------------------------------------------- the functions, applied
\* A row of status_configs.  A pattern that is NULL and one that is the
\* empty string are both <<>>: the code tests them with `not`.
StatusConfig(id, category, http_code_pattern, response_regex, priority) ==
    [id |-> id, category |-> category, http_code_pattern |-> http_code_pattern,
     response_regex |-> response_regex, priority |-> priority]

\* The database of a scheduler that is not looked at: every row enabled.
AllEnabled ==
    /\ provider = [pr \in Providers |-> "on"]
    /\ link = [p \in Pairs |-> "on"]
    /\ model = [m \in Models |-> "on"]
    /\ template = [m \in Models |-> TRUE]

\* The http_code_pattern values tried, "5xx", "4xx", "401,403" and the same
\* written with white space and capitals, and the HTTP statuses tried.
HttpPatterns ==
    { <<"5", "x", "x">>,
      <<"4", "x", "x">>,
      <<"4", "0", "1", ",", "4", "0", "3">>,
      <<" ", "5", "X", "X">>,
      <<"4", "0", "1", ",", " ", "4", "0", "3">> }

MinHttpCode == 100
MaxHttpCode == 999
HttpCodes == MinHttpCode..MaxHttpCode

InitHttpCode ==
    /\ AllEnabled
    /\ Constructed
    /\ configs \in {<<StatusConfig(1, "red", pat, <<>>, 1)>> : pat \in HttpPatterns}
    /\ check_result \in {[NoResult EXCEPT !.http_code = c] : c \in HttpCodes}
    /\ outcome = NoOutcome
    /\ timing = NoTiming

\* One call _match_http_code(config.http_code_pattern, http_code)
MatchHttpCode ==
    /\ outcome = NoOutcome
    /\ configs # <<>>
    /\ outcome' = [op |-> "_match_http_code",
                   returned |-> match_http_code(configs[1].http_code_pattern,
                                                check_result.http_code)]
    /\ UNCHANGED <<config, history, running, tasks, orphans, cleanup, lifespan,
                   api, manual, configs, check_result, timing>>

NextHttpCode == MatchHttpCode

SpecHttpCode == InitHttpCode /\ [][NextHttpCode]_vars

\* The tables tried, those of n rows for n up to MaxRules: each row of any
\* category, with or without an http_code_pattern and a response_regex (one
\* of them a regex that does not compile), in every order of distinct
\* priorities.
MaxRules == 2
Categories == {"green", "yellow", "red"}
RuleHttpPatterns == {<<>>, <<"5", "x", "x">>, <<"4", "0", "1", ",", "4", "0", "3">>}
RuleRegexes == {<<>>, <<"e", "r", "r">>, <<"(">>}

Tables(n) ==
    { [i \in 1..n |-> StatusConfig(i, cat[i], pat[i], rgx[i], pri[i])] :
        cat \in [1..n -> Categories], pat \in [1..n -> RuleHttpPatterns],
        rgx \in [1..n -> RuleRegexes],
        pri \in {f \in [1..n -> 1..n] : \A i, j \in 1..n : i # j => f[i] # f[j]} }

\* The CheckResults tried: no output, an output without and one with the
\* text the regex looks for; no HTTP response, 200, 401 and 503.
Outputs == {<<>>, <<"o", "k">>, <<"a", " ", "e", "r", "r">>}
MatchHttpCodes == {NoHttpCode, 200, 401, 503}

InitMatch ==
    /\ AllEnabled
    /\ Constructed
    /\ \E n \in 0..MaxRules : configs \in Tables(n)
    /\ check_result \in {[NoResult EXCEPT !.output = o, !.http_code = c] :
                             o \in Outputs, c \in MatchHttpCodes}
    /\ outcome = NoOutcome
    /\ timing = NoTiming

\* One call match_status(output, http_code=http_code)
MatchStatus ==
    /\ outcome = NoOutcome
    /\ \E r \in match_status(configs, check_result.output, check_result.http_code) :
          outcome' = [op |-> "match_status", call |-> r]
    /\ UNCHANGED <<config, history, running, tasks, orphans, cleanup, lifespan,
                   api, manual, configs, check_result, timing>>

NextMatch == MatchStatus

SpecMatch == InitMatch /\ [][NextMatch]_vars

\* The calls of save_probe_result tried: no rule, a red http-code rule
\* (fires unmatched), a green regex rule (fires matched) or a yellow rule
\* whose regex is the text of the checker's error; an output that
\* is empty, short, or one character under, at and over the limit of the
\* message; with and without an error of the checker.
TextOf(n) == [i \in 1..n |-> "a"]
OutputLengths == {0, 2, MessageLimit - 1, MessageLimit, MessageLimit + 1}
SaveTables ==
    { <<>>,
      <<StatusConfig(1, "red", <<"5", "x", "x">>, <<>>, 1)>>,
      <<StatusConfig(1, "green", <<>>, <<"a">>, 1)>>,
      <<StatusConfig(1, "yellow", <<>>, <<"e", "r", "r">>, 1)>> }
Latencies == {0, 120}

InitSave ==
    /\ AllEnabled
    /\ Constructed
    /\ configs \in SaveTables
    /\ check_result \in
          {[output |-> TextOf(n), error |-> e, http_code |-> c, latency_ms |-> l] :
              n \in OutputLengths, e \in {<<>>, <<"e", "r", "r">>},
              c \in {200, 503}, l \in Latencies}
    /\ outcome = NoOutcome
    /\ timing = NoTiming

\* One call save_probe_result(config, check_result) for the pair <<1, 1>>
SaveProbeResult ==
    /\ outcome = NoOutcome
    /\ \E r \in save_probe_result(<<1, 1>>, configs, check_result) :
          /\ outcome' = [op |-> "save_probe_result", call |-> r]
          /\ history' = [history EXCEPT ![<<1, 1>>] = IF r.raised THEN @ ELSE @ + 1]
    /\ UNCHANGED <<config, running, tasks, orphans, cleanup, lifespan,
                   api, manual, configs, check_result, timing>>

NextSave == SaveProbeResult

SpecSave == InitSave /\ [][NextSave]_vars

\* The intervals tried: a provider without an override or with one from 10
\* seconds to an hour, and the global interval absent or set.
ProviderIntervals == {0, 10, 30, 59, 60, 61, 120, 300, 600, 3600}
GlobalIntervals == {NoRow} \cup {GlobalConfig(str(n)) : n \in {30, 60, 61, 300, 600}}

InitInterval ==
    /\ AllEnabled
    /\ Constructed
    /\ configs = <<>>
    /\ check_result = NoResult
    /\ outcome = NoOutcome
    /\ timing \in {[NoTiming EXCEPT !.interval_seconds = i, !.check_interval_seconds = g] :
                       i \in ProviderIntervals, g \in GlobalIntervals}

\* The end of one iteration of _task_loop: the sleep of the interval that
\* _get_provider_config returned after the probe, or the sleep of the
\* `except Exception` handler after an exception of the iteration.
IterationSleep ==
    /\ timing.after = "none"
    /\ \E r \in get_provider_config(timing.interval_seconds, timing.check_interval_seconds) :
          timing' = [timing EXCEPT !.after = IF r.raised THEN "exception" ELSE "probe",
                                   !.slept = IF r.raised THEN RecoveryDelay ELSE r.result]
    /\ UNCHANGED <<config, history, running, tasks, orphans, cleanup, lifespan,
                   api, manual, configs, check_result, outcome>>

NextInterval == IterationSleep

SpecInterval == InitInterval /\ [][NextInterval]_vars

\* ------------------------------------------ a task loop under live edits
\* The rule sets the status-rule handlers leave behind: none, one rule of
\* each category with its own id, and two rules of different priorities.
RuleSets ==
    { <<>>,
      <<StatusConfig(1, "green", <<>>, <<"a">>, 1)>>,
      <<StatusConfig(2, "red", <<"5", "x", "x">>, <<>>, 1)>>,
      <<StatusConfig(3, "yellow", <<>>, <<"a">>, 1)>>,
      <<StatusConfig(1, "green", <<>>, <<"a">>, 1),
        StatusConfig(2, "red", <<"5", "x", "x">>, <<>>, 2)>> }

\* What the checker returns to the task: a response with or without the
\* text the regex rules look for, answered 200 or 503.
CheckResults ==
    {[output |-> o, error |-> <<>>, http_code |-> c, latency_ms |-> 120] :
        o \in {<<"a", "a">>, <<"b">>}, c \in {200, 503}}

InitFresh ==
    /\ provider \in [Providers -> {"off", "on"}]
    /\ link \in [Pairs -> {"off", "on"}]
    /\ model \in [Models -> {"off", "on"}]
    /\ template \in [Models -> BOOLEAN]
    /\ \A pr \in Providers \ Focus : provider[pr] = "off"
    /\ \A p \in Pairs \ FocusPairs : link[p] = "off"
    /\ Constructed
    /\ configs \in RuleSets
    /\ check_result \in CheckResults
    /\ outcome = NoOutcome
    /\ timing = NoTiming

\* The resumption of the task of pair p at save_probe_result, with the rows
\* of status_configs and the CheckResult it works on: the record built, or
\* the exception that takes the iteration to the `except Exception` handler.
TaskSave(p) ==
    /\ tasks[p].pc = "match"
    /\ ~tasks[p].cancel
    /\ \E r \in save_probe_result(p, configs, check_result) :
          /\ outcome' = [op |-> "save_probe_result", call |-> r]
          /\ tasks' = [tasks EXCEPT ![p] = IF r.raised THEN Raised(@) ELSE At(@, "commit")]
    /\ UNCHANGED <<config, history, running, orphans, cleanup, lifespan, api, manual,
                   configs, check_result, timing>>

\* api/status.py create_status_config, update_status_config and
\* delete_status_config: the rows change and are committed; the scheduler
\* is not called.
UpdateStatusConfigs ==
    /\ Serving
    /\ configs' \in RuleSets \ {configs}
    /\ UNCHANGED <<config, history, running, tasks, orphans, cleanup, lifespan, api,
                   manual, check_result, outcome, timing>>

\* One start(), then the task loop of the pair while model rows and status
\* rules are edited: none of these handlers calls refresh_tasks, and no
\* task is stopped or started again.
NextFresh ==
    \/ StartCall
    \/ StartFinish
    \/ \E p \in FocusPairs : tasks[p].pc # "match" /\ TaskRun(p)
    \/ \E p \in FocusPairs : TaskSave(p)
    \/ \E m \in Models, v \in {"off", "on"}, tpl \in BOOLEAN : UpdateModel(m, v, tpl)
    \/ UpdateStatusConfigs

SpecFresh == InitFresh /\ [][NextFresh]_vars

\* ------------------------------------------------ the task loops, for ever
\* A resumption of the task the table holds for pair p, the count of the
\* rows of the pair stopping at MaxHistory ("MaxHistory or more"): no write
\* waits for room in the table.
TaskLive(p) ==
    /\ \E o \in TaskSteps(p, tasks[p]) :
          /\ tasks' = [tasks EXCEPT ![p] = o[1]]
          /\ history' = [history EXCEPT ![p] =
                            IF o[2] /\ @ < MaxHistory THEN @ + 1 ELSE @]
    /\ UNCHANGED <<call, config, running, orphans, cleanup, lifespan, api, manual>>

\* One start(), then the task loops while the provider and the model are
\* edited and the provider handler reconciles; the scheduler is not stopped.
NextLive ==
    \/ StartCall
    \/ StartFinish
    \/ \E p \in FocusPairs : TaskLive(p)
    \/ \E p \in FocusPairs : OrphanRun(p)
    \/ \E c \in Callers, pr \in Focus, v \in {"off", "on"} : UpdateProvider(c, pr, v)
    \/ \E m \in Models, v \in {"off", "on"}, tpl \in BOOLEAN : UpdateModel(m, v, tpl)
    \/ \E c \in Callers : RefreshRead(c)
    \/ \E c \in Callers : RefreshApply(c)

\* The event loop runs every coroutine that can go on: start() runs to its
\* end, a sleep and an await end, a handler that has committed goes on to
\* refresh_tasks() and through it.  The requests themselves come when they
\* come.
FairLive ==
    /\ WF_vars(StartCall)
    /\ WF_vars(StartFinish)
    /\ \A p \in FocusPairs : WF_vars(TaskLive(p)) /\ WF_vars(OrphanRun(p))
    /\ \A c \in Callers : WF_vars(RefreshRead(c)) /\ WF_vars(RefreshApply(c))

SpecLive == InitFocus /\ [][NextLive]_vars /\ FairLive

\* ------------------------------------------ reconciles that overlap
\* One start(), the task loops, and update_provider requests of two callers:
\* every change of the enabled pairs is made by a handler that goes on to
\* refresh_tasks(), whose query and whose two loops are separate steps.
NextOverlap ==
    \/ StartCall
    \/ StartFinish
    \/ \E p \in FocusPairs : TaskRun(p)
    \/ \E p \in FocusPairs : OrphanRun(p)
    \/ \E c \in Callers, pr \in Focus, v \in {"off", "on"} : UpdateProvider(c, pr, v)
    \/ \E c \in Callers : RefreshRead(c)
    \/ \E c \in Callers : RefreshApply(c)

SpecOverlap == InitFocus /\ [][NextOverlap]_vars

\* ------------------------------------- the scheduler under any caller
\* `if self.running: return` of start() as it would be without the test.
AlreadyRunningIgnored == FALSE

\* `if self.running:` of start()
AlreadyRunning == running

\* start() called by any coroutine at any moment: it returns at once on a
\* scheduler that runs, and otherwise sets running and goes on to the query
\* of _start_all_tasks.
StartCalled(c) ==
    /\ api[c].pc = "idle"
    /\ IF AlreadyRunning
       THEN /\ api' = [api EXCEPT ![c] = [pc |-> "returning", snap |-> NoSnap]]
            /\ UNCHANGED running
       ELSE /\ running' = TRUE
            /\ api' = [api EXCEPT ![c] = [pc |-> "starting", snap |-> get_all_enabled_tasks]]
    /\ UNCHANGED <<call, config, history, tasks, orphans, cleanup, lifespan, manual>>

\* The `return` of start() on a scheduler that runs.
StartReturned(c) ==
    /\ api[c].pc = "returning"
    /\ api' = [api EXCEPT ![c] = IdleCall]
    /\ UNCHANGED <<call, config, history, running, tasks, orphans, cleanup, lifespan, manual>>

\* The rest of that start(): one _start_task per enumerated pair, then a
\* new cleanup task, whose reference replaces the one _cleanup_task held.
StartCompleted(c) ==
    /\ api[c].pc = "starting"
    /\ LET tb == StartAll(Table(tasks, orphans), api[c].snap)
       IN /\ tasks' = tb.tasks
          /\ orphans' = tb.orphans
    /\ cleanup' = [pc |-> "new", cancel |-> FALSE]
    /\ api' = [api EXCEPT ![c] = IdleCall]
    /\ UNCHANGED <<call, config, history, running, lifespan, manual>>

\* start() called again by the owner of the scheduler after its stop() has
\* returned.
StartAgain ==
    /\ lifespan.pc = "stopped"
    /\ ~AlreadyRunning
    /\ running' = TRUE
    /\ lifespan' = [pc |-> "restarting", snap |-> get_all_enabled_tasks]
    /\ UNCHANGED <<call, config, history, tasks, orphans, cleanup, api, manual>>

\* The rest of that start(); the owner serves again.
StartAgainFinish ==
    /\ lifespan.pc = "restarting"
    /\ LET tb == StartAll(Table(tasks, orphans), lifespan.snap)
       IN /\ tasks' = tb.tasks
          /\ orphans' = tb.orphans
    /\ cleanup' = [pc |-> "new", cancel |-> FALSE]
    /\ lifespan' = [pc |-> "serving", snap |-> NoSnap, again |-> TRUE]
    /\ UNCHANGED <<call, config, history, running, api, manual>>

\* stop() called while handlers may be in the middle of refresh_tasks() or
\* restart_provider_tasks(): up to `await asyncio.gather(...)`.
StopCalled ==
    /\ Serving
    /\ running' = FALSE
    /\ current_set(Table(tasks, orphans)) # {}
    /\ tasks' = [p \in Pairs |->
                    IF Live(tasks[p]) THEN [Cancel(tasks[p]) EXCEPT !.gath = TRUE]
                    ELSE tasks[p]]
    /\ lifespan' = [pc |-> "gather", snap |-> NoSnap]
    /\ UNCHANGED <<call, config, history, orphans, cleanup, api, manual>>

\* The same with an empty table.
StopCalledEmpty ==
    /\ Serving
    /\ running' = FALSE
    /\ current_set(Table(tasks, orphans)) = {}
    /\ cleanup' = CancelCleanup(cleanup)
    /\ lifespan' = [pc |-> "await_cleanup", snap |-> NoSnap]
    /\ UNCHANGED <<call, config, history, tasks, orphans, api, manual>>

\* refresh_tasks() called by any coroutine at any moment, before start()
\* and after stop() too.
RefreshCalled(c) ==
    /\ api[c].pc = "idle"
    /\ Committed(c)
    /\ UNCHANGED <<call, config, history, running, tasks, orphans, cleanup, lifespan, manual>>

\* tasks_to_restart as it would be without `if pid == provider_id`.
tasks_to_restart_all(tb, pr) == current_set(tb)

\* tasks_to_restart of restart_provider_tasks: the keys of the table that
\* are pairs of the provider
tasks_to_restart(tb, pr) == {p \in current_set(tb) : p[1] = pr}

\* restart_provider_tasks(pr) up to the await of its query: _stop_task for
\* every key of the table that is a pair of the provider.
RestartStop(c, pr) ==
    /\ api[c].pc = "idle"
    /\ LET tb == StopAll(Table(tasks, orphans), tasks_to_restart(Table(tasks, orphans), pr))
       IN /\ OrphansOk(tb)
          /\ tasks' = tb.tasks
          /\ orphans' = tb.orphans
    /\ api' = [api EXCEPT ![c] = [pc |-> "restart", snap |-> NoSnap, provider_id |-> pr]]
    /\ UNCHANGED <<call, config, history, running, cleanup, lifespan, manual>>

\* restart_provider_tasks: the query of get_all_enabled_tasks
RestartRead(c) ==
    /\ api[c].pc = "restart"
    /\ api' = [api EXCEPT ![c] = [pc |-> "restart_read", snap |-> get_all_enabled_tasks,
                                  provider_id |-> api[c].provider_id]]
    /\ UNCHANGED <<call, config, history, running, tasks, orphans, cleanup, lifespan, manual>>

\* restart_provider_tasks: _start_task for the pairs of the provider among
\* those enumerated; the call returns.
RestartStart(c) ==
    /\ api[c].pc = "restart_read"
    /\ LET tb == StartAll(Table(tasks, orphans),
                          {p \in api[c].snap : p[1] = api[c].provider_id})
       IN /\ tasks' = tb.tasks
          /\ orphans' = tb.orphans
    /\ api' = [api EXCEPT ![c] = IdleCall]
    /\ UNCHANGED <<call, config, history, running, cleanup, lifespan, manual>>

\* The scheduler object used by any caller: start() and stop() by its
\* owner, any number of times, and start(), refresh_tasks() and
\* restart_provider_tasks() by other coroutines at any moment, also before
\* the first start() and while stop() is in progress.
NextObject ==
    \/ StartCall
    \/ StartFinish
    \/ StartAgain
    \/ StartAgainFinish
    \/ StopCalled
    \/ StopCalledEmpty
    \/ StopGathered
    \/ StopReturn
    \/ \E p \in FocusPairs : TaskRun(p)
    \/ \E p \in FocusPairs : OrphanRun(p)
    \/ CleanupRun
    \/ \E c \in Callers : StartCalled(c)
    \/ \E c \in Callers : StartReturned(c)
    \/ \E c \in Callers : StartCompleted(c)
    \/ \E c \in Callers : RefreshCalled(c)
    \/ \E c \in Callers : RefreshRead(c)
    \/ \E c \in Callers : RefreshApply(c)
    \/ \E c \in Callers, pr \in Focus : RestartStop(c, pr)
    \/ \E c \in Callers : RestartRead(c)
    \/ \E c \in Callers : RestartStart(c)
    \/ \E c \in Callers, pr \in Focus, v \in {"off", "on"} : UpdateProvider(c, pr, v)
    \/ \E m \in Models, v \in {"off", "on"}, tpl \in BOOLEAN : UpdateModel(m, v, tpl)

SpecObject == InitFocus /\ [][NextObject]_vars

\* Both providers while the scheduler serves: one start(), the task loops
\* of all pairs, models enabled, disabled and given a template, and calls
\* of restart_provider_tasks() for either provider.
NextRestart ==
    \/ StartCall
    \/ StartFinish
    \/ \E p \in Pairs : TaskRun(p)
    \/ \E p \in Pairs : OrphanRun(p)
    \/ \E m \in Models, v \in {"off", "on"}, tpl \in BOOLEAN : UpdateModel(m, v, tpl)
    \/ \E c \in Callers, pr \in Providers : Serving /\ RestartStop(c, pr)
    \/ \E c \in Callers : RestartRead(c)
    \/ \E c \in Callers : RestartStart(c)

SpecRestart == InitServing /\ [][NextRestart]_vars

\* ----------------------------------------------------------------- claims
\* The task loops of pair p that are started and not terminated: the one
\* the table holds and those dropped from it.
Loops(p) == (IF Live(tasks[p]) THEN 1 ELSE 0) + Cardinality(orphans[p])

\* The probe executions of pair p between the resolution of their config
\* and the write or the abandonment of their history record.
ProbesInFlight(p) ==
    (IF tasks[p].pc \in FlightPcs THEN 1 ELSE 0)
    + Cardinality({t \in orphans[p] : t.pc \in FlightPcs})
    + (IF manual.pc \in {"chk", "save"} /\ manual.pair = p THEN 1 ELSE 0)

\* C1: in every reachable state each pair has at most one task loop that is
\* started and not yet terminated.
C1_OneLoopPerPair == \A p \in Pairs : Loops(p) <= 1

C3_RefreshExact ==
    [][\A c \in Callers :
          (api[c].pc = "read" /\ api'[c].pc = "idle") =>
             \A p \in Pairs :
                LET cur == tasks[p] # NoTask
                    des == p \in api[c].snap
                IN /\ (cur /\ ~des) =>
                         /\ tasks'[p] = NoTask
                         /\ orphans'[p] = Dropped(orphans, p, Cancel(tasks[p]))[p]
                   /\ (~cur /\ des) =>
                         /\ tasks'[p] = NewTask
                         /\ orphans'[p] = orphans[p]
                   /\ (cur <=> des) =>
                         /\ tasks'[p] = tasks[p]
                         /\ orphans'[p] = orphans[p]]_vars

\* C3 witness: a refresh has cancelled and removed the task of the first
\* provider, whose loop has not terminated yet, while the task of the second
\* provider, in both sets, runs on in the table.
C3_Witness ==
    /\ api[1].pc = "idle"
    /\ tasks[<<1, 1>>] = NoTask
    /\ \E t \in orphans[<<1, 1>>] : t.cancel
    /\ tasks[<<2, 1>>].pc = "sleep"
    /\ ~tasks[<<2, 1>>].cancel
    /\ history[<<2, 1>>] = 1

\* C4: from every reachable state and for every enabled set, a second
\* refresh_tasks() with the same enabled set changes nothing: after the
\* first call the table's keys are the enabled set, and the second call
\* starts and stops no task.
C4_RefreshIdempotent ==
    \A enabled_set \in SUBSET Pairs :
        LET once == RefreshDiff(Table(tasks, orphans), enabled_set)
        IN /\ current_set(once) = enabled_set
           /\ RefreshDiff(once, enabled_set) = once

\* C4 witness: a refresh removed the second provider's task earlier; with
\* the configuration unchanged since, another refresh_tasks() has read the
\* same enabled set, which the table already holds.
C4_Witness ==
    /\ api[1].pc = "read"
    /\ api[1].snap = {<<1, 1>>}
    /\ get_all_enabled_tasks = {<<1, 1>>}
    /\ current_set(Table(tasks, orphans)) = {<<1, 1>>}
    /\ Live(tasks[<<1, 1>>])
    /\ orphans[<<2, 1>>] # {}

\* C5: when refresh_tasks() applies an enabled set that holds a pair whose
\* task pruned itself and that is eligible again, the pair has a live task
\* afterwards.
C5_PrunedRestarted ==
    [][\A c \in Callers, p \in Pairs :
          (/\ api[c].pc = "read"
           /\ api'[c].pc = "idle"
           /\ p \in api[c].snap
           /\ get_probe_config(p)
           /\ tasks[p].pc = "pruned") => Live(tasks'[p])]_vars

\* C6: once stop() has returned, the task table is empty, the cleanup task
\* is done and no task loop is live.
C6_StopAwaitsAll ==
    lifespan.pc = "stopped" =>
        /\ cleanup.pc \notin {"new", "sleep"}
        /\ \A p \in Pairs : tasks[p] = NoTask /\ Loops(p) = 0

C8_OneRecordPerExecution ==
    [][\A p \in Pairs :
          (/\ tasks[p].pc \in FlightPcs
           /\ ~tasks[p].cancel
           /\ tasks'[p].pc \in {"ivl", "backoff"}) =>
              history'[p] = history[p] + 1]_vars

\* C9: a task loop's resolution of its target ends in "not runnable" with no
\* record written when the provider, the link or the model is missing or
\* disabled or the model has no template, and in a target (the checker is
\* called next) in every other case; it never ends in an error.
C9_ResolveTotal ==
    [][\A p \in Pairs :
          (/\ tasks[p].pc = "cfg"
           /\ ~tasks[p].cancel
           /\ tasks'[p].pc \in {"chk", "pruned", "backoff"}) =>
              /\ history' = history
              /\ tasks'[p].pc = (IF get_probe_config(p) THEN "chk" ELSE "pruned")]_vars

\* C10: every step that changes the enabled-pair set is the commit of a
\* handler that goes on to call refresh_tasks().
C10_MutationReconciles ==
    [][(get_all_enabled_tasks' # get_all_enabled_tasks) =>
          \E c \in Callers : api[c].pc = "idle" /\ api'[c].pc = "committed"]_vars

\* C11: an unexpected exception in an iteration of a pair's task loop never
\* terminates the task.  A task of the table that is not cancelled ends only
\* by returning when get_probe_config reports None or when the loop test
\* finds the scheduler stopped; and one that waits the recovery delay after
\* an exception goes on, while the scheduler runs, to a new iteration.
C11_ExceptionNeverTerminates ==
    [][\A p \in Pairs :
          LET t == tasks[p]
          IN (Live(t) /\ ~t.cancel) =>
                /\ Done(tasks'[p]) =>
                      \/ t.pc = "cfg" /\ ~get_probe_config(p) /\ tasks'[p].pc = "pruned"
                      \/ ~running /\ tasks'[p].pc = "exited"
                /\ (t.pc = "backoff" /\ running) =>
                      \/ tasks'[p] \in {t, At(t, "cfg"), NoTask}
                      \/ tasks'[p].cancel]_vars

\* A task of a running scheduler waits the recovery delay, its exception
\* raised after a record of the pair was written.
C11_Witness ==
    \E p \in Pairs :
        /\ running
        /\ tasks[p].pc = "backoff"
        /\ ~tasks[p].cancel
        /\ history[p] = MaxHistory

\* C19: when the config resolution of a task that is not cancelled reports
\* that the pair is not runnable, the resumption of the task ends it there:
\* the task returns, without a call of the checker, without a history
\* record and without a sleep before another attempt.
C19_NotRunnableTerminates ==
    [][\A p \in Pairs :
          LET t == tasks[p]
          IN (/\ t.pc = "cfg"
              /\ ~t.cancel
              /\ ~get_probe_config(p)
              /\ tasks'[p] \notin {t, NoTask}
              /\ ~tasks'[p].cancel) =>
                /\ tasks'[p].pc = "pruned"
                /\ history' = history]_vars

\* The task of a pair that is not runnable has returned while the
\* scheduler runs.
C19_Witness ==
    \E p \in Pairs :
        /\ running
        /\ ~get_probe_config(p)
        /\ tasks[p].pc = "pruned"

\* C12: a step of one pair's task loop (a fault, the end of a check, a
\* back-off, a return) leaves every other pair alone: the table entry of
\* the other pair, the task objects of the other pair outside the table and
\* the history of the other pair are what they were.  The steps of the task
\* loops are those that change a task while no handler and no start() moves.
C12_OtherPairsUnchanged ==
    [][(api' = api /\ lifespan' = lifespan) =>
          \A p \in Pairs : \A q \in Pairs \ {p} :
              (tasks'[p] # tasks[p] \/ orphans'[p] # orphans[p]) =>
                  /\ tasks'[q] = tasks[q]
                  /\ orphans'[q] = orphans[q]
                  /\ history'[q] = history[q]]_vars

\* One pair's task waits after an exception, or has returned, while the
\* task of another pair is in the middle of a probe.
C12_Witness ==
    \E p \in Pairs : \E q \in Pairs \ {p} :
        /\ tasks[p].pc \in {"backoff", "pruned"}
        /\ tasks[q].pc \in FlightPcs
        /\ ~tasks[q].cancel

\* C17: for every HTTP status from 100 to 999, _match_http_code accepts it
\* for "5xx" exactly when it is in 500..599, for "4xx" exactly when it is in
\* 400..499, and for "401,403" exactly when it is 401 or 403; the same holds
\* of the patterns written with white space and capitals.
C17_HttpCodePattern ==
    outcome.op = "_match_http_code" =>
        LET pattern == configs[1].http_code_pattern
            http_code == check_result.http_code
        IN /\ pattern \in {<<"5", "x", "x">>, <<" ", "5", "X", "X">>} =>
                 (outcome.returned <=> http_code \in 500..599)
           /\ pattern = <<"4", "x", "x">> =>
                 (outcome.returned <=> http_code \in 400..499)
           /\ pattern \in {<<"4", "0", "1", ",", "4", "0", "3">>,
                            <<"4", "0", "1", ",", " ", "4", "0", "3">>} =>
                 (outcome.returned <=> http_code \in {401, 403})

\* "5xx" was tried on 450 and refused, the prefix of "450" being "4".
C17_Witness ==
    /\ outcome.op = "_match_http_code"
    /\ configs[1].http_code_pattern = <<"5", "x", "x">>
    /\ check_result.http_code = 450
    /\ ~outcome.returned

\* The rows of the table that fire on the CheckResult, every pattern they
\* declare matching, and the one of them of the highest priority.
Firing == {i \in 1..Len(configs) :
              Hit(configs[i], check_result.output, check_result.http_code)}
TopFiring == CHOOSE i \in Firing : \A j \in Firing : configs[j].priority <= configs[i].priority

\* C16: when no rule fires on the output and the HTTP status, and so when
\* no rule is configured at all, match_status returns the fixed unknown
\* outcome: status code -1, category yellow, matched=false.
C16_UnknownOutcome ==
    (outcome.op = "match_status" /\ Firing = {}) =>
        /\ ~outcome.call.raised
        /\ outcome.call.result = MatchResult(-1, FALSE, "yellow")

\* match_status went through two rows with patterns, none of which fired.
C16_Witness ==
    /\ outcome.op = "match_status"
    /\ Firing = {}
    /\ Len(configs) = MaxRules
    /\ \A i \in 1..Len(configs) :
           configs[i].http_code_pattern # <<>> \/ configs[i].response_regex # <<>>
    /\ ~outcome.call.raised

\* C13: for every table of rules of distinct priorities and every output
\* and HTTP status on which some rule fires, match_status returns the
\* classification of the rule of the highest priority among those that
\* fire, and of no rule of a lower priority.
C13_HighestPriorityWins ==
    (outcome.op = "match_status" /\ Firing # {}) =>
        /\ ~outcome.call.raised
        /\ outcome.call.result.status_code = configs[TopFiring].id
        /\ outcome.call.result.category = configs[TopFiring].category

\* C14: whenever the rule that fires is green, the outcome of match_status
\* has matched=true, with or without a response_regex on the rule.
C14_GreenMatched ==
    (outcome.op = "match_status" /\ Firing # {}
        /\ configs[TopFiring].category = "green") =>
        /\ ~outcome.call.raised
        /\ outcome.call.result.matched

\* C15: whenever the rule that fires is yellow or red, the outcome of
\* match_status carries the status code of the rule and has matched=true
\* exactly when the rule declares a response_regex.
C15_NonGreenMatchedIffRegex ==
    (outcome.op = "match_status" /\ Firing # {}
        /\ configs[TopFiring].category # "green") =>
        /\ ~outcome.call.raised
        /\ outcome.call.result.status_code = configs[TopFiring].id
        /\ outcome.call.result.matched <=> (configs[TopFiring].response_regex # <<>>)

\* C18: the history record a probe writes carries the status code and the
\* latency the probe produced; its message is null when the classification
\* is matched, and is otherwise null or the first 1000 characters of the
\* classified output, at most 1000 characters long.
C18_RecordRoundTrip ==
    outcome.op = "save_probe_result" =>
        /\ ~outcome.call.raised
        /\ LET record == outcome.call.result
               output == ClassifiedOutput(check_result)
           IN \E m \in match_status(configs, output, check_result.http_code) :
                 /\ ~m.raised
                 /\ record.status_id = m.result.status_code
                 /\ record.latency_ms = check_result.latency_ms
                 /\ m.result.matched => record.message.null
                 /\ ~record.message.null =>
                       /\ ~m.result.matched
                       /\ Len(record.message.text) <= 1000
                       /\ Len(record.message.text) = 1000
                             \/ Len(record.message.text) = Len(output)
                       /\ \A i \in 1..Len(record.message.text) :
                              record.message.text[i] = output[i]

\* C20: the delay a task waits after an unexpected exception is longer than
\* the probe interval in effect for the pair: the interval of the provider
\* when it has one, else the global interval, else its default of 300
\* seconds.
C20_RecoveryLongerThanInterval ==
    timing.after = "exception" =>
        timing.slept > (IF timing.interval_seconds # 0 THEN timing.interval_seconds
                        ELSE IF timing.check_interval_seconds.row
                             THEN int(timing.check_interval_seconds.value)
                             ELSE 300)

\* The rows of the table that declare neither pattern, and the table
\* without them.
Inert(c) == c.http_code_pattern = <<>> /\ c.response_regex = <<>>
WithoutInert == SelectSeq(configs, LAMBDA c : ~Inert(c))

\* C29: a rule that declares neither an http_code_pattern nor a
\* response_regex never fires, whatever its priority, its category and the
\* input: match_status never gives its classification, and does what it
\* does on the table without that rule.
C29_InertRuleSkipped ==
    outcome.op = "match_status" =>
        /\ ~outcome.call.raised =>
              \A i \in 1..Len(configs) :
                  Inert(configs[i]) => outcome.call.result.status_code # configs[i].id
        /\ outcome.call \in match_status(WithoutInert, check_result.output,
                                          check_result.http_code)
        /\ (\A i \in 1..Len(configs) : Inert(configs[i])) => outcome.call = NoConfigHit

\* A rule with neither pattern had the highest priority, and match_status
\* returned the classification of the rule below it.
C29_Witness ==
    /\ outcome.op = "match_status"
    /\ Len(configs) = 2
    /\ \E i, j \in 1..2 :
          /\ Inert(configs[i])
          /\ configs[i].priority > configs[j].priority
          /\ ~outcome.call.raised
          /\ outcome.call.result.status_code = configs[j].id

\* C30: a rule that declares an http_code_pattern never fires when the
\* probe has no HTTP status, even when its response_regex matches the
\* output: match_status never gives its classification.
C30_NoHttpCodeNoFire ==
    (outcome.op = "match_status" /\ check_result.http_code = NoHttpCode) =>
        /\ ~outcome.call.raised =>
              \A i \in 1..Len(configs) :
                  configs[i].http_code_pattern # <<>> =>
                      outcome.call.result.status_code # configs[i].id
        /\ (\A i \in 1..Len(configs) : configs[i].http_code_pattern # <<>>) =>
              outcome.call = NoConfigHit

\* No HTTP status, a rule with an http_code_pattern and a response_regex
\* that is found in the output: the outcome is the unknown one.
C30_Witness ==
    /\ outcome.op = "match_status"
    /\ check_result.http_code = NoHttpCode
    /\ Len(configs) = 1
    /\ configs[1].http_code_pattern # <<>>
    /\ configs[1].response_regex # <<>>
    /\ re_search(configs[1].response_regex, check_result.output)
    /\ outcome.call = NoConfigHit

C23_StartLaunchesEnabled ==
    [][/\ (lifespan.pc = "init" /\ lifespan'.pc = "starting") =>
             lifespan'.snap = {p \in Pairs : /\ provider[p[1]] = "on"
                                              /\ link[p] = "on"
                                              /\ model[p[2]] = "on"}
       /\ (lifespan.pc = "starting" /\ lifespan'.pc = "serving") =>
             \A p \in Pairs :
                 /\ tasks'[p] = IF p \in lifespan.snap THEN NewTask ELSE NoTask
                 /\ orphans'[p] = {}]_vars

\* start() has returned: a new task for the enabled pair, none for a pair
\* that is not enabled.
C23_Witness ==
    /\ lifespan.pc = "serving"
    /\ \E p \in Pairs : \E q \in Pairs \ {p} :
          /\ tasks[p] = NewTask
          /\ tasks[q] = NoTask
          /\ q \notin get_all_enabled_tasks

\* C24: the cleanup loop is a task of its own, which invokes the retention
\* cleanup after each sleep of 24 hours while the scheduler runs.  It ends
\* only when it is cancelled or finds the scheduler stopped: after an
\* invocation, failed or not, it sleeps the next period.  Its steps leave
\* the probe tasks alone and only remove history.
C24_CleanupLoopGoesOn ==
    [][(cleanup.pc \in {"new", "sleep"} /\ cleanup' # cleanup
           /\ cleanup'.cancel = cleanup.cancel) =>
          /\ cleanup'.pc = "done" => (cleanup.cancel \/ ~running)
          /\ (~cleanup.cancel /\ running) => cleanup'.pc = "sleep"
          /\ history' # history => (cleanup.pc = "sleep" /\ ~cleanup.cancel)
          /\ \A p \in Pairs : history'[p] <= history[p]
          /\ tasks' = tasks /\ orphans' = orphans]_vars

\* The cleanup has removed the record a task wrote in the iteration it is
\* still in, and the cleanup task sleeps its next period.
C24_Witness ==
    /\ running
    /\ cleanup = [pc |-> "sleep", cancel |-> FALSE]
    /\ \E p \in Pairs : history[p] = 0 /\ tasks[p].pc \in {"ivl", "sleep"}

\* C25: a task that is cancelled, at whichever await, ends at its next
\* resumption without another probe, and writes one whole history record
\* when its commit was in flight and completes, and nothing otherwise.  The
\* tasks dropped from the table are all cancelled, and their resumptions
\* are the steps that take one of them away while no handler moves.
C25_CancelledTaskEnds ==
    [][\A p \in Pairs :
          /\ (tasks[p].cancel /\ tasks'[p] # tasks[p]) =>
                /\ tasks'[p] = NoTask \/ Done(tasks'[p])
                /\ history'[p] \in {history[p], history[p] + 1}
                /\ history'[p] # history[p] => tasks[p].pc = "commit"
          /\ \A t \in orphans'[p] : t.cancel
          /\ (api' = api /\ lifespan' = lifespan /\ orphans'[p] # orphans[p]) =>
                \E t \in orphans[p] :
                    /\ orphans'[p] = orphans[p] \ {t}
                    /\ history'[p] \in {history[p], history[p] + 1}
                    /\ history'[p] # history[p] => t.pc = "commit"]_vars

\* A task was cancelled while its commit was in flight.
C25_Witness ==
    \E p \in Pairs :
        \/ tasks[p].cancel /\ tasks[p].pc = "commit"
        \/ \E t \in orphans[p] : t.cancel /\ t.pc = "commit"

C27_FailureRecordedThenInterval ==
    [][\A p \in Pairs :
          LET t == tasks[p]
          IN (/\ t.pc \in {"chk", "match", "commit", "ivl"}
              /\ ~t.cancel
              /\ tasks'[p] \notin {t, NoTask}
              /\ ~tasks'[p].cancel) =>
                /\ tasks'[p].pc = CASE t.pc = "chk" -> "match"
                                     [] t.pc = "match" -> "commit"
                                     [] t.pc = "commit" -> "ivl"
                                     [] t.pc = "ivl" -> "sleep"
                /\ t.pc = "commit" => history'[p] = history[p] + 1]_vars

\* C22: after a completed probe the task sleeps the interval in effect
\* that it read in that iteration: the interval of the provider when it is
\* set, else the global interval as it is committed then.
C22_SleepsEffectiveInterval ==
    timing.after # "none" =>
        /\ timing.after = "probe"
        /\ timing.slept = IF timing.interval_seconds # 0 THEN timing.interval_seconds
                          ELSE IF timing.check_interval_seconds.row
                               THEN int(timing.check_interval_seconds.value)
                               ELSE 300

\* The first row, in the order of match_status, that fires on the output and
\* the HTTP code, or 0 when no row does.
FirstHit(rows, output, http_code) ==
    IF \E i \in 1..Len(rows) : Hit(rows[i], output, http_code)
    THEN CHOOSE i \in 1..Len(rows) :
            /\ Hit(rows[i], output, http_code)
            /\ \A j \in 1..(i - 1) : ~Hit(rows[j], output, http_code)
    ELSE 0

\* C21: probe targets and status rules are read at every execution: a config
\* resolution yields a config exactly when the provider, the link, the model
\* and the template as they are committed at that moment allow it, and a
\* classification that returns gives the status of the first rule, among
\* the rules as they are committed at that moment, that fires (unknown when
\* none does), all without a restart or a reconcile of the task.
C21_ProbesUseCommittedValues ==
    [][\A p \in FocusPairs :
          LET t == tasks[p]
              u == tasks'[p]
              runnable == /\ provider[p[1]] = "on"
                          /\ link[p] = "on"
                          /\ model[p[2]] = "on"
                          /\ template[p[2]]
          IN /\ (t.pc = "cfg" /\ u.pc = "chk") => runnable
             /\ (t.pc = "cfg" /\ u.pc = "pruned") => ~runnable
             /\ (t.pc = "match" /\ u.pc = "commit") =>
                   /\ outcome'.op = "save_probe_result"
                   /\ ~outcome'.call.raised
                   /\ LET rows == order_by_priority_desc(configs)
                          i == FirstHit(rows, ClassifiedOutput(check_result),
                                        check_result.http_code)
                      IN outcome'.call.result.status_id =
                            IF i = 0 THEN UnknownCode ELSE rows[i].id]_vars

\* The task wrote a record of a probe it classified, and at a later
\* resolution found the pair no longer runnable: a model edit reached the
\* running task.
C21_Witness ==
    \E p \in FocusPairs :
        /\ tasks[p].pc = "pruned"
        /\ history[p] = 1
        /\ outcome.op = "save_probe_result"
        /\ ~outcome.call.raised

\* The rows of the table whose response_regex does not compile, and the
\* table without them.
Malformed(c) == \E i \in 1..Len(c.response_regex) : c.response_regex[i] = "("
WithoutMalformed == SelectSeq(configs, LAMBDA c : ~Malformed(c))

\* C31: a rule whose response_regex does not compile never fires and never
\* makes match_status raise: match_status never gives its classification,
\* does what it does on the table without that rule, and returns the unknown
\* outcome when every rule is such a rule.
C31_MalformedRegexNoFire ==
    outcome.op = "match_status" =>
        /\ ~outcome.call.raised =>
              \A i \in 1..Len(configs) :
                  Malformed(configs[i]) => outcome.call.result.status_code # configs[i].id
        /\ outcome.call \in match_status(WithoutMalformed, check_result.output,
                                          check_result.http_code)
        /\ (\A i \in 1..Len(configs) : Malformed(configs[i])) => outcome.call = NoConfigHit

\* A rule whose regex does not compile had the highest priority, with or
\* without an http_code_pattern that matches, and match_status returned the
\* classification of the rule below it.
C31_Witness ==
    /\ outcome.op = "match_status"
    /\ Len(configs) = 2
    /\ \E i, j \in 1..2 :
          /\ Malformed(configs[i])
          /\ configs[i].http_code_pattern # <<>>
          /\ match_http_code(configs[i].http_code_pattern, check_result.http_code)
          /\ configs[i].priority > configs[j].priority
          /\ ~outcome.call.raised
          /\ outcome.call.result.status_code = configs[j].id

\* The rows of the table every declared pattern of which matches the
\* CheckResult: the HTTP status the http_code_pattern, and the
\* response_regex found in the output.
HttpMatches(c) ==
    /\ check_result.http_code # NoHttpCode
    /\ match_http_code(c.http_code_pattern, check_result.http_code)
RegexFound(c) == re_search(c.response_regex, check_result.output)
AllDeclaredMatch ==
    {i \in 1..Len(configs) :
        LET c == configs[i]
        IN CASE c.http_code_pattern # <<>> /\ c.response_regex # <<>> ->
                    HttpMatches(c) /\ RegexFound(c)
             [] c.http_code_pattern # <<>> /\ c.response_regex = <<>> -> HttpMatches(c)
             [] c.http_code_pattern = <<>> /\ c.response_regex # <<>> -> RegexFound(c)
             [] OTHER -> FALSE}

\* C32: a rule with an http_code_pattern and a response_regex fires exactly
\* when the HTTP status matches the pattern and the regex is found in the
\* output, a rule with one of them exactly when that one matches:
\* match_status ends at a rule exactly when there is such a rule, and the
\* rule it returns is one of them, none of them having a higher priority.
C32_FiresOnAllDeclared ==
    outcome.op = "match_status" =>
        /\ (outcome.call = NoConfigHit) <=> (AllDeclaredMatch = {})
        /\ ~outcome.call.raised /\ AllDeclaredMatch # {} =>
              \E i \in AllDeclaredMatch :
                  /\ outcome.call.result.status_code = configs[i].id
                  /\ \A j \in AllDeclaredMatch : configs[j].priority <= configs[i].priority

\* The status matched the http_code_pattern of the first rule, whose
\* response_regex was not found in the output; the status and the regex of
\* the rule below it both matched, and match_status returned that rule.
C32_Witness ==
    /\ outcome.op = "match_status"
    /\ Len(configs) = 2
    /\ \E i, j \in 1..2 :
          /\ configs[i].priority > configs[j].priority
          /\ configs[i].http_code_pattern # <<>> /\ HttpMatches(configs[i])
          /\ configs[i].response_regex # <<>> /\ ~RegexFound(configs[i])
          /\ configs[j].http_code_pattern # <<>> /\ HttpMatches(configs[j])
          /\ configs[j].response_regex # <<>> /\ RegexFound(configs[j])
          /\ ~outcome.call.raised
          /\ outcome.call.result.status_code = configs[j].id

\* The pair can be probed as the database stands; a refresh_tasks() has read
\* the enabled pairs and is about to apply them; the task of the pair has
\* just committed a history record.
Eligible(p) ==
    /\ provider[p[1]] = "on"
    /\ link[p] = "on"
    /\ model[p[2]] = "on"
    /\ template[p[2]]
Reconciling == \E c \in Callers : api[c].pc = "read"
Wrote(p) == tasks[p].pc = "ivl"

\* C33: under fair scheduling, for a pair that from some moment on stays
\* enabled and runnable while the scheduler runs and is reconciled after
\* that moment (here: again and again), a history record of the pair is
\* written again and again.
C33_ProbedAgainAndAgain ==
    \A p \in FocusPairs :
        ([]<>Reconciling /\ <>[]Eligible(p)) => []<>Wrote(p)

C35_OverlapEndsAtLatest ==
    [][((\E c \in Callers : api[c].pc = "read" /\ api'[c].pc = "idle")
          /\ \A c \in Callers : api'[c].pc = "idle")
        => current_set(Table(tasks', orphans')) = get_all_enabled_tasks']_vars

C37_IdleTaskExits ==
    [][\A p \in Pairs :
          (~running /\ tasks[p].pc = "new" /\ ~tasks[p].cancel) =>
              /\ tasks'[p].pc \in {"new", "exited", "none", "await", "cancelled"}
              /\ tasks'[p].pc = "exited" => history'[p] = history[p]]_vars

\* stop() is awaiting its gather, a refresh_tasks() or a
\* restart_provider_tasks() that went on meanwhile created a task for the
\* pair, and that task has run and exited at its loop test.
C37_Witness ==
    /\ ~running
    /\ lifespan.pc = "gather"
    /\ tasks[<<1, 1>>].pc = "exited"

\* C38: a call of start() on a scheduler that is running, also one made
\* while an earlier start() is still enumerating the pairs, returns without
\* creating a probe task or a cleanup task: from the call to its return the
\* task table, the tasks outside it, the cleanup task and the running flag
\* are left as they are.
C38_StartIdempotent ==
    [][\A c \in Callers :
          /\ (running /\ api[c].pc = "idle" /\ api'[c].pc \in {"returning", "starting"}) =>
                /\ api'[c].pc = "returning"
                /\ UNCHANGED <<tasks, orphans, cleanup, running>>
          /\ (api[c].pc = "returning" /\ api'[c] # api[c]) =>
                /\ api'[c] = IdleCall
                /\ UNCHANGED <<tasks, orphans, cleanup, running>>]_vars

\* A second start() is returning while the first one has set running and
\* is still enumerating: no task and no cleanup task exist yet.
C38_Witness ==
    /\ lifespan.pc = "starting"
    /\ lifespan.snap # {}
    /\ \E c \in Callers : api[c].pc = "returning"
    /\ cleanup = NoCleanup
    /\ \A p \in Pairs : tasks[p] = NoTask

\* C40: the scheduler can be started again: when the start() that follows
\* a stop() that has returned ends, the scheduler runs, every pair it
\* enumerated as enabled has a task in the table that is live and not
\* cancelled, and the cleanup task is a new one, whatever the table held
\* before the stop and whatever was put into it since.
C40_StartsAgain ==
    [][(lifespan.pc = "restarting" /\ lifespan'.pc = "serving") =>
          /\ running'
          /\ \A p \in lifespan.snap : Live(tasks'[p]) /\ ~tasks'[p].cancel
          /\ cleanup' = [pc |-> "new", cancel |-> FALSE]]_vars

\* The owner serves again after a stop() and a second start(); the pair
\* has a record from before, a new task and a new cleanup task.
C40_Witness ==
    /\ lifespan = [pc |-> "serving", snap |-> NoSnap, again |-> TRUE]
    /\ running
    /\ history[<<1, 1>>] = 1
    /\ tasks[<<1, 1>>] = NewTask
    /\ cleanup = [pc |-> "new", cancel |-> FALSE]

\* C39: restart_provider_tasks(pr) cancels every task the table holds for
\* a pair of the provider and takes it from the table, reads the enabled
\* pairs, and gives each of them that is a pair of the provider a task that
\* runs, and no other pair a task: the table then holds, for the provider,
\* the pairs read and no other unless another call put one there meanwhile.
\* The tasks of the pairs of every other provider, in the table and outside
\* it, are the same after each step of the call as before it.
C39_RestartOneProvider ==
    [][\A c \in Callers :
          /\ (api[c].pc = "idle" /\ api'[c].pc = "restart") =>
                \A p \in Pairs :
                    IF p[1] = api'[c].provider_id
                    THEN /\ tasks'[p] = NoTask
                         /\ Live(tasks[p]) => Cancel(tasks[p]) \in orphans'[p]
                    ELSE tasks'[p] = tasks[p] /\ orphans'[p] = orphans[p]
          /\ (api[c].pc = "restart" /\ api'[c].pc = "restart_read") =>
                /\ api'[c].snap = {p \in Pairs : /\ provider[p[1]] = "on"
                                                 /\ link[p] = "on"
                                                 /\ model[p[2]] = "on"}
                /\ UNCHANGED <<tasks, orphans>>
          /\ (api[c].pc = "restart_read" /\ api'[c].pc = "idle") =>
                LET mine == {p \in Pairs : p[1] = api[c].provider_id}
                IN /\ \A p \in mine \cap api[c].snap :
                          Live(tasks'[p]) /\ ~tasks'[p].cancel
                   /\ \A p \in Pairs \ (mine \cap api[c].snap) : tasks'[p] = tasks[p]
                   /\ \A p \in Pairs \ mine : orphans'[p] = orphans[p]
                   /\ (\A p \in mine : tasks[p] = NoTask) =>
                          {p \in mine : tasks'[p] # NoTask} = mine \cap api[c].snap]_vars

\* A restart of provider 1 has returned: the task its pair had is cancelled
\* and outside the table, the pair has a new task, and the task of the
\* pair of provider 2 is where it was, waiting for its checker.
C39_Witness ==
    /\ \A c \in Callers : api[c].pc = "idle"
    /\ tasks[<<1, 1>>] = NewTask
    /\ \E t \in orphans[<<1, 1>>] : t.cancel
    /\ tasks[<<2, 1>>].pc = "chk"
    /\ orphans[<<2, 1>>] = {}

====
